---- MODULE Spec2Model ----
(***************************************************************************)
(* Model of the CoinGecko -> Webflow CMS sync script.                      *)
(*                                                                         *)
(* The orchestrator, the reconciler (syncItems / archiveOldCoins) and the  *)
(* paginated listing follow the archive revision of the script             *)
(* (src/unnamed/part_000, lines 143-771).  The pure chart helpers follow   *)
(* src/sync.js (downsampleData, the 7d/30d/1y buckets) and part_000        *)
(* (getRecentData, normalizeTimestamps, the 24h/7d/30d/1y buckets).        *)
(***************************************************************************)
EXTENDS Integers, Sequences, FiniteSets, TLC

VARIABLES
  pc,             \* position of the run inside syncCoinsToWebflow
  coll,           \* the Webflow collection: sequence of persisted records
  coins,          \* const coins = await fetchTopCoins()
  offset,         \* getAllWebflowItems: let offset
  items,          \* getAllWebflowItems: const items
  existingItems,  \* const existingItems = await getAllWebflowItems()
  i,              \* loop index of the per-item loop that is running
  results,        \* syncItems: const results = { updated, created, failed }
  itemsToArchive, \* archiveOldCoins: const itemsToArchive
  batchCoins,     \* const batchCoins = coins.slice(startIdx, endIdx)
  files,          \* the files of data/charts
  dirFiles,       \* cleanupOldChartFiles: files of readdir not yet visited
  sheet,          \* the spreadsheet: "stale", "cleared" or "written"
  issued,         \* requests issued by this run, in order (observation)
  failedAt,       \* position at which a fatal error was thrown, "" if none
  summary,        \* what logResults printed, or NoSummary
  exitCode,       \* process.exit status, or Running
  data,           \* downsampleData: argument data
  targetPoints,   \* downsampleData: argument targetPoints
  result,         \* downsampleData: returned value
  chartData,      \* fetchAndSaveChartData: const chartData
  baseTime,       \* fetchAndSaveChartData: const now = Date.now()
  charts,         \* fetchAndSaveChartData: processed.charts
  currentHour,    \* const currentHour = new Date().getUTCHours()
  rotation,       \* the batches selected by the runs of a day, in order
  args,           \* normalizeTimestamps: arguments pointsCount, isOneYear
  lastRun         \* what the previous run of the script left behind (history)

vars == <<pc, coll, coins, offset, items, existingItems, i, results,
          itemsToArchive, batchCoins, files, dirFiles, sheet, issued,
          failedAt, summary, exitCode, data, targetPoints, result,
          chartData, baseTime, charts, currentHour, rotation, args,
          lastRun>>

rotVars == <<currentHour, rotation>>

pureVars == <<data, targetPoints, result, chartData, baseTime, charts,
              currentHour, rotation, args, lastRun>>

-----------------------------------------------------------------------------
(* Bounds of the model *)

MaxCoins == 2      \* longest ranked snapshot fetchTopCoins returns
MaxRecords == 4    \* item limit of the collection (creates fail beyond it)

CoinIds == {"btc", "old"}

(* A request ends in a success status, a non-success status, or a thrown   *)
(* error (network failure, unreadable body).                               *)
Outcomes == {"ok", "status", "throw"}

Running == 0 - 1   \* exitCode while the process has not exited
NoSummary == [updated |-> -1, created |-> -1, failed |-> -1]

(* No run of the script has ended yet *)
NoRun == [ran |-> FALSE, clean |-> FALSE, coins |-> <<>>, archived |-> {},
          coll |-> <<>>]

Min(a, b) == IF a < b THEN a ELSE b

Range(s) == {s[k] : k \in DOMAIN s}

(* Ranked snapshots: sequences of distinct external ids, rank = position. *)
Snapshots ==
  {s \in UNION {[1..n -> CoinIds] : n \in 0..MaxCoins} :
     \A a, b \in DOMAIN s : a # b => s[a] # s[b]}

-----------------------------------------------------------------------------
(* Webflow collection *)

limit == 100

(* One page of GET /collections/:id/items?limit=&offset= *)
Page(c, off, lim) == SubSeq(c, off + 1, Min(off + lim, Len(c)))

(* syncItems: existingItemsMap, built by forEach + Map.set (a later record *)
(* with the same coingecko-id overwrites an earlier one).                  *)
RECURSIVE MapSetAll(_, _, _)
MapSetAll(ex, k, m) ==
  IF k > Len(ex) THEN m
  ELSE MapSetAll(ex, k + 1,
         IF ex[k].cg # ""
         THEN [x \in (DOMAIN m) \cup {ex[k].cg} |->
                 IF x = ex[k].cg THEN ex[k] ELSE m[x]]
         ELSE m)

NotArchived(item) == ~item.isArchived

(* Variant: the index keeps the first record of an id (set only when the   *)
(* map does not have the key yet)                                          *)
RECURSIVE MapSetFirst(_, _, _)
MapSetFirst(ex, k, m) ==
  IF k > Len(ex) THEN m
  ELSE MapSetFirst(ex, k + 1,
         IF ex[k].cg # "" /\ ex[k].cg \notin DOMAIN m
         THEN [x \in (DOMAIN m) \cup {ex[k].cg} |->
                 IF x = ex[k].cg THEN ex[k] ELSE m[x]]
         ELSE m)

existingItemsMapFirstWins(ex) == MapSetFirst(ex, 1, <<>>)

(* Variant: archived records are left out of the index *)
existingItemsMapLive(ex) == MapSetAll(SelectSeq(ex, NotArchived), 1, <<>>)

existingItemsMap(ex) == MapSetAll(ex, 1, <<>>)

(* archiveOldCoins: existingItems.filter(item => !currentCoinIds.has(...)) *)
RECURSIVE Filter(_, _, _)
Filter(ex, k, ids) ==
  IF k > Len(ex) THEN <<>>
  ELSE IF ex[k].cg \notin ids
       THEN <<ex[k]>> \o Filter(ex, k + 1, ids)
       ELSE Filter(ex, k + 1, ids)

(* Variant: the filter tests the record id instead of the coingecko-id, so *)
(* every prior record passes                                               *)
ItemsToArchiveAll(currentCoins, ex) == ex

(* Variant: records that are already archived are left out of the list *)
ItemsToArchiveActive(currentCoins, ex) ==
  LET IsActive(item) == ~item.isArchived
  IN Filter(SelectSeq(ex, IsActive), 1, Range(currentCoins))

ItemsToArchive(currentCoins, ex) == Filter(ex, 1, Range(currentCoins))

(* Variant: the PATCH body also carries isArchived: false, as the POST     *)
(* body does                                                               *)
PatchFieldDataUnarchives(c, rid) ==
  [k \in DOMAIN c |->
     IF c[k].id = rid
     THEN [c[k] EXCEPT !.fresh = TRUE, !.isArchived = FALSE]
     ELSE c[k]]

(* Server side of PATCH { fieldData }: the record's field data is          *)
(* rewritten (last-updated is now of this run); isArchived is not in the   *)
(* body and stays.                                                         *)
PatchFieldData(c, rid) ==
  [k \in DOMAIN c |-> IF c[k].id = rid THEN [c[k] EXCEPT !.fresh = TRUE] ELSE c[k]]

(* Server side of PATCH { isArchived: true } *)
PatchArchived(c, rid) ==
  [k \in DOMAIN c |-> IF c[k].id = rid THEN [c[k] EXCEPT !.isArchived = TRUE] ELSE c[k]]

(* Server side of POST { fieldData, isArchived: false, isDraft: false } *)
PostItem(c, cgId) ==
  Append(c, [id |-> Len(c) + 1, cg |-> cgId, isArchived |-> FALSE, fresh |-> TRUE])

-----------------------------------------------------------------------------
(* State after the process has started, before the first await *)

RotIdle ==
  /\ currentHour = 0
  /\ rotation = <<>>

PureIdle ==
  /\ data = <<>>
  /\ targetPoints = 0
  /\ result = <<>>
  /\ chartData = <<>>
  /\ baseTime = 0
  /\ charts = <<>>
  /\ RotIdle
  /\ args = <<>>
  /\ lastRun = NoRun

RunFields ==
  /\ coins = <<>>
  /\ offset = 0
  /\ items = <<>>
  /\ existingItems = <<>>
  /\ i = 0
  /\ results = [updated |-> 0, created |-> 0, failed |-> 0]
  /\ itemsToArchive = <<>>
  /\ batchCoins = <<>>
  /\ dirFiles = {}
  /\ issued = <<>>
  /\ failedAt = ""
  /\ summary = NoSummary
  /\ exitCode = Running

World ==
  /\ coll = <<>>
  /\ files = {[stem |-> "README", ext |-> "md", fresh |-> FALSE]}
  /\ sheet = "stale"

Init ==
  /\ pc = "fetchSchema"
  /\ RunFields
  /\ World
  /\ PureIdle

(* Variant: the catch block logs and does not rethrow, the promise resolves *)
FatalSwallowed ==
  /\ pc' = "exited"
  /\ exitCode' = 0
  /\ failedAt' = pc

(* catch (error) { console.error(...); throw error; } of syncCoinsToWebflow, *)
(* then .catch(error => { ...; process.exit(1); }) of the run wrapper.       *)
Fatal ==
  /\ pc' = "exited"
  /\ exitCode' = 1
  /\ failedAt' = pc

(* The run goes on at position next *)
Goto(next) ==
  /\ pc' = next
  /\ UNCHANGED <<exitCode, failedAt>>

(* An entry of the request log *)
Req(op, cg, rid, pos, ok) == [op |-> op, cg |-> cg, rid |-> rid, pos |-> pos, ok |-> ok]

(* await new Promise(resolve => setTimeout(resolve, ms)) after item pos, as *)
(* an entry of the log (its rid field holds the milliseconds).  The delay   *)
(* is the last statement of the try block: it is reached only when no      *)
(* statement before it threw or left the iteration.                        *)
DelayAfter(reached, ms, pos) ==
  IF reached THEN <<Req("delay", "", ms, pos, TRUE)>> ELSE <<>>

-----------------------------------------------------------------------------
(* syncCoinsToWebflow, step by step *)

(* Debug fetch of the collection schema: a non-success status is skipped,  *)
(* a thrown error (fetch or schema.json()) is not caught locally.          *)
FetchSchema ==
  /\ pc = "fetchSchema"
  /\ \E o \in Outcomes :
       IF o = "throw" THEN Fatal ELSE Goto("fetchTopCoins")
  /\ UNCHANGED <<coll, coins, offset, items, existingItems, i, results,
                 itemsToArchive, batchCoins, files, dirFiles, sheet, issued,
                 summary>>
  /\ UNCHANGED pureVars

(* Variant: the run goes from Step 1 straight to Step 3, the collection is *)
(* not listed                                                              *)
fetchTopCoinsSkipsListing ==
  /\ pc = "fetchTopCoins"
  /\ \E o \in Outcomes :
       IF o = "ok"
       THEN /\ \E c \in Snapshots : coins' = c
            /\ Goto("syncItems")
       ELSE /\ Fatal
            /\ coins' = coins
  /\ UNCHANGED <<coll, offset, items, existingItems, i, results,
                 itemsToArchive, batchCoins, files, dirFiles, sheet, issued,
                 summary>>
  /\ UNCHANGED pureVars

(* Step 1: const coins = await fetchTopCoins() *)
fetchTopCoins ==
  /\ pc = "fetchTopCoins"
  /\ \E o \in Outcomes :
       IF o = "ok"
       THEN /\ \E c \in Snapshots : coins' = c
            /\ Goto("getAllWebflowItems")
       ELSE /\ Fatal
            /\ coins' = coins
  /\ UNCHANGED <<coll, offset, items, existingItems, i, results,
                 itemsToArchive, batchCoins, files, dirFiles, sheet, issued,
                 summary>>
  /\ UNCHANGED pureVars

(* Variant: the test reads <= instead of < *)
IsLastPageAtMost(n, lim) == n <= lim

(* if (data.items.length < limit) break; *)
IsLastPage(n, lim) == n < lim

(* Step 2: one turn of the while (true) loop of getAllWebflowItems; the    *)
(* turn that reads a short page returns items into existingItems.          *)
getAllWebflowItems ==
  /\ pc = "getAllWebflowItems"
  /\ \E o \in Outcomes :
       IF o = "ok"
       THEN LET page == Page(coll, offset, limit)
                all == items \o page
            IN /\ items' = all
               /\ IF IsLastPage(Len(page), limit)
                  THEN /\ existingItems' = all
                       /\ Goto("syncItems")
                       /\ offset' = offset
                  ELSE /\ existingItems' = existingItems
                       /\ Goto(pc)
                       /\ offset' = offset + limit
       ELSE /\ Fatal
            /\ UNCHANGED <<items, existingItems, offset>>
  /\ UNCHANGED <<coll, coins, i, results, itemsToArchive, batchCoins, files,
                 dirFiles, sheet, issued, summary>>
  /\ UNCHANGED pureVars

(* ---- Step 3: syncItems ---- *)

(* Variant: every coin is created, as in the create-all revision *)
SyncRequestCreateOnly(m, coinId, pos, ok) == Req("create", coinId, 0, pos, ok)

(* if (existingItem) ... else ...: the request syncItems issues for a coin *)
SyncRequest(m, coinId, pos, ok) ==
  IF coinId \in DOMAIN m
  THEN Req("update", coinId, m[coinId].id, pos, ok)
  ELSE Req("create", coinId, 0, pos, ok)

(* Variant: a non-success status is only logged, the counter is left to   *)
(* the catch block                                                         *)
TallyNoStatus(r, op, o) ==
  IF o = "ok"
  THEN IF op = "update"
       THEN [r EXCEPT !.updated = @ + 1]
       ELSE [r EXCEPT !.created = @ + 1]
  ELSE IF o = "throw" THEN [r EXCEPT !.failed = @ + 1] ELSE r

(* Variant: the catch block only logs *)
TallyNoCatch(r, op, o) ==
  IF o = "ok"
  THEN IF op = "update"
       THEN [r EXCEPT !.updated = @ + 1]
       ELSE [r EXCEPT !.created = @ + 1]
  ELSE IF o = "status" THEN [r EXCEPT !.failed = @ + 1] ELSE r

(* results.updated++ / results.created++ on response.ok; results.failed++  *)
(* on a non-success status and in the catch block.                         *)
Tally(r, op, o) ==
  IF o = "ok"
  THEN IF op = "update"
       THEN [r EXCEPT !.updated = @ + 1]
       ELSE [r EXCEPT !.created = @ + 1]
  ELSE [r EXCEPT !.failed = @ + 1]

(* Variant: the try/catch wraps the whole loop, a thrown error ends it *)
SyncNextIndexAbort(o, idx, n) == IF o = "throw" THEN n ELSE idx + 1

(* The try/catch sits inside the for loop: whatever the outcome of item    *)
(* idx, the loop goes on with idx + 1 (n is coins.length).                 *)
SyncNextIndex(o, idx, n) == idx + 1

(* What the collection holds after the request req has been answered *)
Applied(c, req) ==
  IF ~req.ok THEN c
  ELSE IF req.op = "update" THEN PatchFieldData(c, req.rid)
  ELSE IF req.op = "create" THEN PostItem(c, req.cg)
  ELSE PatchArchived(c, req.rid)

(* A create is refused by the server once the collection is at its item limit *)
Possible(c, req) == (req.op = "create" /\ Len(c) >= MaxRecords) => ~req.ok

syncItems ==
  /\ pc = "syncItems"
  /\ i < Len(coins)
  /\ \E o \in Outcomes :
       LET req == SyncRequest(existingItemsMap(existingItems), coins[i + 1],
                              i + 1, o = "ok")
       IN /\ Possible(coll, req)
          /\ issued' = issued \o <<req>> \o DelayAfter(o # "throw", 100, i + 1)
          /\ coll' = Applied(coll, req)
          /\ results' = Tally(results, req.op, o)
          /\ i' = SyncNextIndex(o, i, Len(coins))
  /\ UNCHANGED <<pc, coins, offset, items, existingItems, itemsToArchive,
                 batchCoins, files, dirFiles, sheet, failedAt, summary,
                 exitCode>>
  /\ UNCHANGED pureVars

(* return results; then Step 4 starts: archiveOldCoins computes itemsToArchive *)
syncItemsReturn ==
  /\ pc = "syncItems"
  /\ i >= Len(coins)
  /\ Goto("archiveOldCoins")
  /\ itemsToArchive' = ItemsToArchive(coins, existingItems)
  /\ i' = 0
  /\ UNCHANGED <<coll, coins, offset, items, existingItems, results,
                 batchCoins, files, dirFiles, sheet, issued, summary>>
  /\ UNCHANGED pureVars

(* ---- Step 4: archiveOldCoins ---- *)

(* Variant: no try/catch around the archive request *)
archiveEscapesThrow(o) == o = "throw"

(* Whether an outcome of the archive request escapes archiveOldCoins: the  *)
(* try/catch inside the loop catches every thrown error.                   *)
archiveEscapes(o) == FALSE

archiveOldCoins ==
  /\ pc = "archiveOldCoins"
  /\ i < Len(itemsToArchive)
  /\ \E o \in Outcomes :
       LET item == itemsToArchive[i + 1]
           req == Req("archive", item.cg, item.id, i + 1, o = "ok")
       IN /\ issued' = issued \o <<req>> \o DelayAfter(o # "throw", 100, i + 1)
          /\ coll' = Applied(coll, req)
          /\ IF archiveEscapes(o)
             THEN Fatal /\ i' = i
             ELSE Goto(pc) /\ i' = i + 1
  /\ UNCHANGED <<coins, offset, items, existingItems, results, itemsToArchive,
                 batchCoins, files, dirFiles, sheet, summary>>
  /\ UNCHANGED pureVars

archiveOldCoinsReturn ==
  /\ pc = "archiveOldCoins"
  /\ i >= Len(itemsToArchive)
  /\ Goto("updateGoogleSheets")
  /\ i' = 0
  /\ UNCHANGED <<coll, coins, offset, items, existingItems, results,
                 itemsToArchive, batchCoins, files, dirFiles, sheet, issued,
                 summary>>
  /\ UNCHANGED pureVars

(* ---- Step 5: updateGoogleSheets ---- *)

(* Variant: the spreadsheet calls are not inside try/catch *)
sheetsEscapesThrow(o) == o # "ok"

(* Whether a failure inside updateGoogleSheets escapes it: the whole body  *)
(* after the configuration test is inside try/catch.                       *)
sheetsEscapes(o) == FALSE

(* configured: GOOGLE_SERVICE_ACCOUNT and GOOGLE_SHEET_ID are set.          *)
(* o: "ok" both calls succeed, "status" values.clear succeeds and          *)
(* values.update fails, "throw" values.clear fails.  (A failing JSON.parse *)
(* leaves the same state as no configuration: no call, nothing written.)   *)
updateGoogleSheets ==
  /\ pc = "updateGoogleSheets"
  /\ \E configured \in BOOLEAN, o \in Outcomes :
       IF ~configured
       THEN UNCHANGED <<sheet, issued>> /\ Goto("cleanupOldChartFiles")
       ELSE /\ sheet' = IF o = "ok" THEN "written"
                        ELSE IF o = "status" THEN "cleared" ELSE sheet
            /\ issued' = issued \o
                 (IF o = "throw"
                  THEN <<Req("sheetsClear", "", 0, 0, FALSE)>>
                  ELSE <<Req("sheetsClear", "", 0, 0, TRUE),
                         Req("sheetsUpdate", "", 0, 0, o = "ok")>>)
            /\ IF sheetsEscapes(o) THEN Fatal ELSE Goto("cleanupOldChartFiles")
  /\ UNCHANGED <<coll, coins, offset, items, existingItems, i, results,
                 itemsToArchive, batchCoins, files, dirFiles, summary>>
  /\ UNCHANGED pureVars

(* ---- Step 6: cleanupOldChartFiles, batch selection ---- *)

batchSize == 7

(* Variant: the batch number advances every three hours *)
selectBatchEveryThreeHours(cs, utcHour) ==
  LET batchNumber == (utcHour \div 3) % 7
      startIdx == batchNumber * batchSize
      endIdx == Min(startIdx + batchSize, Len(cs))
  IN SubSeq(cs, startIdx + 1, endIdx)

(* Variant: the batch number advances every hour, not every two hours *)
selectBatchHourly(cs, utcHour) ==
  LET batchNumber == utcHour % 7
      startIdx == batchNumber * batchSize
      endIdx == Min(startIdx + batchSize, Len(cs))
  IN SubSeq(cs, startIdx + 1, endIdx)

(* lines 207-212: the batch of the current UTC hour *)
selectBatch(cs, utcHour) ==
  LET batchNumber == (utcHour \div 2) % 7
      startIdx == batchNumber * batchSize
      endIdx == Min(startIdx + batchSize, Len(cs))
  IN SubSeq(cs, startIdx + 1, endIdx)

(* mkdir + readdir; a thrown error ends the cleanup (caught, logged) *)
cleanupOldChartFiles ==
  /\ pc = "cleanupOldChartFiles"
  /\ \E o \in {"ok", "throw"} :
       /\ dirFiles' = IF o = "ok" THEN files ELSE {}
       /\ issued' = Append(issued, Req("readdir", "", 0, 0, o = "ok"))
  /\ Goto("cleanupLoop")
  /\ UNCHANGED <<coll, coins, offset, items, existingItems, i, results,
                 itemsToArchive, batchCoins, files, sheet, summary>>
  /\ UNCHANGED pureVars

(* Variant: the test for the .json suffix is missing *)
IsOldChartFileAnySuffix(f, currentCoins) == f.stem \notin Range(currentCoins)

(* Variant: the test for a current id has lost its negation *)
IsOldChartFileInverted(f, currentCoins) ==
  f.ext = "json" /\ f.stem \in Range(currentCoins)

(* file.endsWith('.json') and !currentIds.has(file.replace('.json', '')) *)
IsOldChartFile(f, currentCoins) == f.ext = "json" /\ f.stem \notin Range(currentCoins)

(* one turn of for (const file of files); a failed unlink throws out of the loop *)
cleanupLoop ==
  /\ pc = "cleanupLoop"
  /\ \E f \in dirFiles :
       IF IsOldChartFile(f, coins)
       THEN \E o \in {"ok", "throw"} :
              /\ issued' = Append(issued, Req("unlink", "", 0, 0, o = "ok"))
              /\ files' = IF o = "ok" THEN files \ {f} ELSE files
              /\ dirFiles' = IF o = "ok" THEN dirFiles \ {f} ELSE {}
       ELSE /\ dirFiles' = dirFiles \ {f}
            /\ UNCHANGED <<issued, files>>
  /\ UNCHANGED <<pc, coll, coins, offset, items, existingItems, i, results,
                 itemsToArchive, batchCoins, sheet, failedAt, summary, exitCode>>
  /\ UNCHANGED pureVars

(* cleanupOldChartFiles returns; lines 205-216 select the batch *)
cleanupReturn ==
  /\ pc = "cleanupLoop"
  /\ dirFiles = {}
  /\ \E utcHour \in 0..23 : batchCoins' = selectBatch(coins, utcHour)
  /\ Goto("fetchAndSaveChartData")
  /\ i' = 0
  /\ UNCHANGED <<coll, coins, offset, items, existingItems, results,
                 itemsToArchive, files, dirFiles, sheet, issued, summary>>
  /\ UNCHANGED pureVars

(* ---- fetchAndSaveChartData ---- *)

(* Variant: no try/catch inside the loop, a thrown error ends the function *)
chartEscapesThrow(o) == o = "throw"

(* Whether a failure for one coin escapes fetchAndSaveChartData *)
chartEscapes(o) == FALSE

ChartFile(coinId) == [stem |-> coinId, ext |-> "json", fresh |-> TRUE]

(* o: "status" the chart fetch answers a non-success status (continue),    *)
(* "throw" fetch, response.json() or the processing throws, "ok" the file  *)
(* is written, "writeFail" fs.writeFile throws.  The 10 s delay follows    *)
(* writeFile inside the try block.                                         *)
fetchAndSaveChartData ==
  /\ pc = "fetchAndSaveChartData"
  /\ i < Len(batchCoins)
  /\ \E o \in Outcomes \cup {"writeFail"} :
       LET coinId == batchCoins[i + 1]
           fetched == Req("chartFetch", coinId, 0, i + 1, o \in {"ok", "writeFail"})
           written == Req("writeFile", coinId, 0, i + 1, o = "ok")
       IN /\ issued' = IF fetched.ok
                       THEN issued \o <<fetched, written>>
                              \o DelayAfter(o = "ok", 10000, i + 1)
                       ELSE Append(issued, fetched)
          /\ files' = IF written.ok
                      THEN {f \in files : ~(f.stem = coinId /\ f.ext = "json")}
                             \cup {ChartFile(coinId)}
                      ELSE files
          /\ IF chartEscapes(o)
             THEN Fatal /\ i' = i
             ELSE Goto(pc) /\ i' = i + 1
  /\ UNCHANGED <<coll, coins, offset, items, existingItems, results,
                 itemsToArchive, batchCoins, dirFiles, sheet, summary>>
  /\ UNCHANGED pureVars

(* Step 7: logResults(result); return result; then process.exit(0) *)
logResults ==
  /\ pc = "fetchAndSaveChartData"
  /\ i >= Len(batchCoins)
  /\ summary' = results
  /\ pc' = "exited"
  /\ exitCode' = 0
  /\ UNCHANGED <<coll, coins, offset, items, existingItems, i, results,
                 itemsToArchive, batchCoins, files, dirFiles, sheet, issued,
                 failedAt>>
  /\ UNCHANGED pureVars

(* The scheduler starts the script again: a new process, the collection,   *)
(* the chart directory and the spreadsheet as the last run left them (now  *)
(* holding data of an earlier run).                                        *)
StartRun ==
  /\ pc = "exited"
  /\ pc' = "fetchSchema"
  /\ coins' = <<>>
  /\ offset' = 0
  /\ items' = <<>>
  /\ existingItems' = <<>>
  /\ i' = 0
  /\ results' = [updated |-> 0, created |-> 0, failed |-> 0]
  /\ itemsToArchive' = <<>>
  /\ batchCoins' = <<>>
  /\ dirFiles' = {}
  /\ issued' = <<>>
  /\ failedAt' = ""
  /\ summary' = NoSummary
  /\ exitCode' = Running
  /\ coll' = [k \in DOMAIN coll |-> [coll[k] EXCEPT !.fresh = FALSE]]
  /\ files' = {[f EXCEPT !.fresh = FALSE] : f \in files}
  /\ sheet' = "stale"
  /\ UNCHANGED pureVars

(* Every step of a run: each awaited call settles *)
RunStep ==
  \/ FetchSchema
  \/ fetchTopCoins
  \/ getAllWebflowItems
  \/ syncItems
  \/ syncItemsReturn
  \/ archiveOldCoins
  \/ archiveOldCoinsReturn
  \/ updateGoogleSheets
  \/ cleanupOldChartFiles
  \/ cleanupLoop
  \/ cleanupReturn
  \/ fetchAndSaveChartData
  \/ logResults

Next == RunStep \/ StartRun

Spec == Init /\ [][Next]_vars

(* The event loop runs every continuation that is ready *)
SpecFair == Spec /\ WF_vars(RunStep)

-----------------------------------------------------------------------------
(* Chart helpers.  A point [timestamp, value] is [ts |-> t, value |-> v];  *)
(* a timestamp is the exact rational t.n / t.d, in hours (the script's     *)
(* millisecond arithmetic scaled by 3,600,000, without float rounding).    *)

MaxLen == 5        \* longest series given to downsampleData on its own
MaxTarget == 4     \* largest targetPoints given to downsampleData on its own
MaxPoints == 730   \* longest series of a market_chart response
MaxNow == 9000     \* latest Date.now() (in hours) of a chart refresh

Values == {0, 1}

(* The JS values undefined / null of an array-typed argument, encoded as a *)
(* reserved one-point sequence that no series equals.                      *)
Null == <<[ts |-> [n |-> 0, d |-> 0], value |-> 0]>>

Point(t, v) == [ts |-> [n |-> t, d |-> 1], value |-> v]

(* Series of at most MaxLen points, ascending timestamps, any values *)
SmallSeries ==
  UNION {{[k \in 1..n |-> Point(k, f[k])] : f \in [1..n -> Values]} : n \in 0..MaxLen}

(* The series of a market_chart response with n hourly points *)
SeriesOf(n, salt) == [k \in 1..n |-> Point(k, (k + salt) % 3)]

(* The body of a market_chart response: three series of n points *)
MarketChart(n) ==
  [prices |-> SeriesOf(n, 0),
   market_caps |-> SeriesOf(n, 1),
   total_volumes |-> SeriesOf(n, 2)]

(* data.slice(-n) *)
SliceLast(d, n) == SubSeq(d, (IF Len(d) > n THEN Len(d) - n ELSE 0) + 1, Len(d))

(* Variant: the loop pushes every visited element, without the test of    *)
(* result.length against targetPoints                                      *)
RECURSIVE DownsampleLoopUnguarded(_, _, _, _, _)
DownsampleLoopUnguarded(d, tp, step, idx, res) ==
  IF idx >= Len(d) THEN res
  ELSE DownsampleLoopUnguarded(d, tp, step, idx + step, Append(res, d[idx + 1]))

(* downsampleData: for (let i = 0; i < data.length; i += step) *)
RECURSIVE DownsampleLoop(_, _, _, _, _)
DownsampleLoop(d, tp, step, idx, res) ==
  IF idx >= Len(d) THEN res
  ELSE DownsampleLoop(d, tp, step, idx + step,
         IF Len(res) < tp THEN Append(res, d[idx + 1]) ELSE res)

(* Variant: no early return for a short series, the stride is clamped to 1 *)
downsampleDataAlwaysStride(d, tp) ==
  IF d = Null \/ Len(d) = 0 THEN <<>>
  ELSE LET step == IF Len(d) \div tp = 0 THEN 1 ELSE Len(d) \div tp
           res == DownsampleLoop(d, tp, step, 0, <<>>)
       IN IF Len(res) < tp /\ Len(d) > 0
          THEN Append(res, d[Len(d)])
          ELSE res

(* Variant: the last point is appended whenever the stride has not ended   *)
(* on it, whether or not the target is reached                             *)
downsampleDataForcedAppend(d, tp) ==
  IF d = Null \/ Len(d) = 0 THEN <<>>
  ELSE IF Len(d) <= tp THEN d
  ELSE LET step == Len(d) \div tp
           res == DownsampleLoop(d, tp, step, 0, <<>>)
       IN IF res[Len(res)] # d[Len(d)]
          THEN Append(res, d[Len(d)])
          ELSE res

(* Variant: the append tests result.length <= targetPoints *)
downsampleDataAppendAtTarget(d, tp) ==
  IF d = Null \/ Len(d) = 0 THEN <<>>
  ELSE IF Len(d) <= tp THEN d
  ELSE LET step == Len(d) \div tp
           res == DownsampleLoop(d, tp, step, 0, <<>>)
       IN IF Len(res) <= tp /\ Len(d) > 0
          THEN Append(res, d[Len(d)])
          ELSE res

downsampleData(d, tp) ==
  IF d = Null \/ Len(d) = 0 THEN <<>>
  ELSE IF Len(d) <= tp THEN d
  ELSE LET step == Len(d) \div tp
           res == DownsampleLoop(d, tp, step, 0, <<>>)
       IN IF Len(res) < tp /\ Len(d) > 0
          THEN Append(res, d[Len(d)])
          ELSE res

(* normalizeTimestamps: point index gets startTime + index * interval,     *)
(* interval = span / data.length, span = 365 * 24 h or hoursBack h.        *)
(* Variant: the timestamps of the input are kept *)
normalizeTimestampsKeepsTime(d, pointsCount, base, isOneYear) ==
  IF d = Null \/ Len(d) = 0 THEN <<>>
  ELSE [k \in 1..Len(d) |-> [ts |-> d[k].ts, value |-> d[k].value]]

normalizeTimestamps(d, pointsCount, base, isOneYear) ==
  IF d = Null \/ Len(d) = 0 THEN <<>>
  ELSE LET hoursBack == IF pointsCount = 24 THEN 24
                        ELSE IF pointsCount = 168 THEN 168
                        ELSE IF pointsCount = 720 THEN 720
                        ELSE pointsCount
           span == IF isOneYear THEN 365 * 24 ELSE hoursBack
           startTime == base - span
       IN [k \in 1..Len(d) |->
             [ts |-> [n |-> startTime * Len(d) + (k - 1) * span, d |-> Len(d)],
              value |-> d[k].value]]

getRecentData(d, pointsCount, base, isOneYear) ==
  IF d = Null \/ Len(d) = 0 THEN <<>>
  ELSE LET recentData == SliceLast(d, pointsCount)
       IN IF Len(recentData) = 0 THEN <<>>
          ELSE normalizeTimestamps(recentData, pointsCount, base, isOneYear)

(* A value that is null in the market_chart response. *)
NoValue == 0 - 1

(* Number(value) in an arithmetic expression: null counts as 0 *)
Num(v) == IF v = NoValue THEN 0 ELSE v

(* n / d rounded to the nearest integer, halves away from zero (d > 0) *)
RoundDiv(n, d) ==
  IF n >= 0 THEN (2 * n + d) \div (2 * d) ELSE 0 - ((d - 2 * n) \div (2 * d))

(* parseFloat(percentChange.toFixed(2)), held as a number of hundredths of *)
(* a percent: ((value - baseline) / baseline) * 100, to two decimals.      *)
PercentOf(value, baseline) ==
  IF baseline > 0
  THEN RoundDiv(10000 * (Num(value) - baseline), baseline)
  ELSE 0 - RoundDiv(10000 * (Num(value) - baseline), 0 - baseline)

(* Variant: on a zero baseline the values are passed through unchanged *)
calculatePercentageChangeKeepValues(d) ==
  IF d = Null \/ Len(d) = 0 THEN <<>>
  ELSE LET baseline == d[1].value
       IN IF baseline = NoValue \/ baseline = 0
          THEN [k \in 1..Len(d) |-> [ts |-> d[k].ts, value |-> Num(d[k].value)]]
          ELSE [k \in 1..Len(d) |->
                  [ts |-> d[k].ts, value |-> PercentOf(d[k].value, baseline)]]

calculatePercentageChange(d) ==
  IF d = Null \/ Len(d) = 0 THEN <<>>
  ELSE LET baseline == d[1].value
       IN IF baseline = NoValue \/ baseline = 0
          THEN [k \in 1..Len(d) |-> [ts |-> d[k].ts, value |-> 0]]
          ELSE [k \in 1..Len(d) |->
                  [ts |-> d[k].ts, value |-> PercentOf(d[k].value, baseline)]]

(* processed.charts of src/sync.js *)
DownsampledBucket(cd, window, points) ==
  [prices |-> downsampleData(SliceLast(cd.prices, window), points),
   market_caps |-> downsampleData(SliceLast(cd.market_caps, window), points),
   volumes |-> downsampleData(SliceLast(cd.total_volumes, window), points),
   points |-> points]

(* '1y' of src/sync.js: the whole series, no slice *)
DownsampledYear(cd, points) ==
  [prices |-> downsampleData(cd.prices, points),
   market_caps |-> downsampleData(cd.market_caps, points),
   volumes |-> downsampleData(cd.total_volumes, points),
   points |-> points]

DownsampledCharts(cd) ==
  [d7 |-> DownsampledBucket(cd, 168, 28),
   d30 |-> DownsampledBucket(cd, 720, 10),
   y1 |-> DownsampledYear(cd, 12)]

(* processed.charts of the rotating-batch script (part_000) *)
RecentBucket(cd, points, base, isOneYear) ==
  [prices |-> getRecentData(cd.prices, points, base, isOneYear),
   market_caps |-> getRecentData(cd.market_caps, points, base, isOneYear),
   volumes |-> getRecentData(cd.total_volumes, points, base, isOneYear),
   points |-> points]

RecentCharts(cd, base) ==
  [h24 |-> RecentBucket(cd, 24, base, FALSE),
   d7 |-> RecentBucket(cd, 168, base, FALSE),
   d30 |-> RecentBucket(cd, 720, base, FALSE),
   y1 |-> RecentBucket(cd, 365, base, TRUE)]

-----------------------------------------------------------------------------
(* downsampleData on its own *)

RunIdle == RunFields /\ World

InitDown ==
  /\ pc = "downsampleData"
  /\ RunIdle
  /\ data \in SmallSeries \cup {Null}
  /\ targetPoints \in 1..MaxTarget
  /\ result = <<>>
  /\ chartData = <<>>
  /\ baseTime = 0
  /\ charts = <<>>
  /\ RotIdle
  /\ args = <<>>
  /\ lastRun = NoRun

DownsampleCall ==
  /\ pc = "downsampleData"
  /\ result' = downsampleData(data, targetPoints)
  /\ pc' = "downsampled"
  /\ UNCHANGED <<coll, coins, offset, items, existingItems, i, results,
                 itemsToArchive, batchCoins, files, dirFiles, sheet, issued,
                 failedAt, summary, exitCode>>
  /\ UNCHANGED <<data, targetPoints, chartData, baseTime, charts>>
  /\ UNCHANGED rotVars
  /\ UNCHANGED <<args, lastRun>>

NextDown == DownsampleCall

SpecDown == InitDown /\ [][NextDown]_vars

-----------------------------------------------------------------------------
(* The chart buckets of one market_chart response *)

InitChart ==
  /\ pc = "chartData"
  /\ RunIdle
  /\ data = <<>>
  /\ targetPoints = 0
  /\ result = <<>>
  /\ chartData \in {MarketChart(n) : n \in 0..MaxPoints}
  /\ baseTime \in {MaxNow - 1, MaxNow}
  /\ charts = <<>>
  /\ RotIdle
  /\ args = <<>>
  /\ lastRun = NoRun

(* src/sync.js, lines 304-330 *)
ProcessDownsampled ==
  /\ pc = "chartData"
  /\ charts' = DownsampledCharts(chartData)
  /\ pc' = "downsampledCharts"
  /\ UNCHANGED <<coll, coins, offset, items, existingItems, i, results,
                 itemsToArchive, batchCoins, files, dirFiles, sheet, issued,
                 failedAt, summary, exitCode>>
  /\ UNCHANGED <<data, targetPoints, result, chartData, baseTime>>
  /\ UNCHANGED rotVars
  /\ UNCHANGED <<args, lastRun>>

(* part_000, lines 506-567 *)
ProcessRecent ==
  /\ pc = "chartData"
  /\ charts' = RecentCharts(chartData, baseTime)
  /\ pc' = "recentCharts"
  /\ UNCHANGED <<coll, coins, offset, items, existingItems, i, results,
                 itemsToArchive, batchCoins, files, dirFiles, sheet, issued,
                 failedAt, summary, exitCode>>
  /\ UNCHANGED <<data, targetPoints, result, chartData, baseTime>>
  /\ UNCHANGED rotVars
  /\ UNCHANGED <<args, lastRun>>

NextChart == ProcessDownsampled \/ ProcessRecent

SpecChart == InitChart /\ [][NextChart]_vars

-----------------------------------------------------------------------------
(* getAllWebflowItems over collections of more than one page *)

MaxListed == 205   \* largest collection listed

(* A collection of n records that carry no coingecko-id *)
Records(n) ==
  [k \in 1..n |-> [id |-> k, cg |-> "", isArchived |-> FALSE, fresh |-> FALSE]]

InitList ==
  /\ pc = "getAllWebflowItems"
  /\ RunFields
  /\ coll \in {Records(n) : n \in 0..MaxListed}
  /\ files = {[stem |-> "README", ext |-> "md", fresh |-> FALSE]}
  /\ sheet = "stale"
  /\ PureIdle

NextList == getAllWebflowItems

SpecList == InitList /\ [][NextList]_vars

(* every awaited page request settles *)
SpecListFair == SpecList /\ WF_vars(getAllWebflowItems)

-----------------------------------------------------------------------------
(* One run over a collection in which several records carry the same       *)
(* coingecko-id (records created by hand or by an earlier revision).       *)

MaxPrior == 3      \* largest collection with duplicates the run starts from

HasDuplicate(c) == \E a, b \in DOMAIN c : a # b /\ c[a].cg = c[b].cg

DuplicateCollections ==
  {c \in UNION {{[k \in 1..n |-> [id |-> k, cg |-> f[k], isArchived |-> FALSE,
                                    fresh |-> FALSE]] : f \in [1..n -> CoinIds]} :
                  n \in 2..MaxPrior} : HasDuplicate(c)}

InitDuplicates ==
  /\ pc = "fetchSchema"
  /\ RunFields
  /\ coll \in DuplicateCollections
  /\ files = {[stem |-> "README", ext |-> "md", fresh |-> FALSE]}
  /\ sheet = "stale"
  /\ PureIdle

NextDuplicates == RunStep

SpecDuplicates == InitDuplicates /\ [][NextDuplicates]_vars

-----------------------------------------------------------------------------
(* Two runs of the script in a row: the first from a collection that       *)
(* earlier runs have filled, the second started by the scheduler once the  *)
(* first has exited.  lastRun keeps what the first run fetched, listed for *)
(* archiving and left in the collection.                                   *)

Record(rid, cgId, archived) ==
  [id |-> rid, cg |-> cgId, isArchived |-> archived, fresh |-> FALSE]

(* Collections earlier runs can have left: empty; one active record of a   *)
(* coin; an archived record and an active one; one archived record         *)
RerunCollections ==
  {<<>>,
   <<Record(1, "old", FALSE)>>,
   <<Record(1, "old", TRUE), Record(2, "btc", FALSE)>>,
   <<Record(1, "btc", TRUE)>>}

InitRerun ==
  /\ pc = "fetchSchema"
  /\ RunFields
  /\ coll \in RerunCollections
  /\ files = {[stem |-> "README", ext |-> "md", fresh |-> FALSE]}
  /\ sheet = "stale"
  /\ PureIdle

(* The scheduler starts the script a second time.  A new process: the      *)
(* run's variables start over, the collection, the chart directory and    *)
(* the spreadsheet are as the first run left them.                         *)
StartRerun ==
  /\ pc = "exited"
  /\ ~lastRun.ran
  /\ lastRun' =
       [ran |-> TRUE,
        clean |-> /\ exitCode = 0
                  /\ \A k \in DOMAIN issued :
                       issued[k].op \in {"create", "update", "archive"}
                         => issued[k].ok,
        coins |-> coins,
        archived |-> {itemsToArchive[k].id : k \in DOMAIN itemsToArchive},
        coll |-> coll]
  /\ pc' = "fetchSchema"
  /\ coins' = <<>>
  /\ offset' = 0
  /\ items' = <<>>
  /\ existingItems' = <<>>
  /\ i' = 0
  /\ results' = [updated |-> 0, created |-> 0, failed |-> 0]
  /\ itemsToArchive' = <<>>
  /\ batchCoins' = <<>>
  /\ dirFiles' = {}
  /\ issued' = <<>>
  /\ failedAt' = ""
  /\ summary' = NoSummary
  /\ exitCode' = Running
  /\ coll' = [k \in DOMAIN coll |-> [coll[k] EXCEPT !.fresh = FALSE]]
  /\ files' = {[f EXCEPT !.fresh = FALSE] : f \in files}
  /\ sheet' = "stale"
  /\ UNCHANGED <<data, targetPoints, result, chartData, baseTime, charts, args>>
  /\ UNCHANGED rotVars

NextRerun == RunStep \/ StartRerun

SpecRerun == InitRerun /\ [][NextRerun]_vars

-----------------------------------------------------------------------------
(* The create-all revision of the script (src/unnamed/part_001, lines      *)
(* 1-495): syncCoinsToWebflow fetches the coins and lists the collection,  *)
(* then syncItems POSTs every coin ("existing ones already deleted") and   *)
(* the run goes on with the spreadsheet, the cleanup and the charts.       *)
(* deleteAllItems is defined in that revision and called from nowhere, so  *)
(* no step of the run issues a DELETE.                                     *)

(* one turn of the for loop of syncItems: POST, whatever existingItems holds *)
syncItemsCreateAll ==
  /\ pc = "syncItems"
  /\ i < Len(coins)
  /\ \E o \in Outcomes :
       LET req == Req("create", coins[i + 1], 0, i + 1, o = "ok")
       IN /\ Possible(coll, req)
          /\ issued' = issued \o <<req>> \o DelayAfter(o # "throw", 100, i + 1)
          /\ coll' = Applied(coll, req)
          /\ results' = Tally(results, req.op, o)
          /\ i' = i + 1
  /\ UNCHANGED <<pc, coins, offset, items, existingItems, itemsToArchive,
                 batchCoins, files, dirFiles, sheet, failedAt, summary,
                 exitCode>>
  /\ UNCHANGED pureVars

(* return results; Step 4 of that revision is updateGoogleSheets *)
syncItemsCreateAllReturn ==
  /\ pc = "syncItems"
  /\ i >= Len(coins)
  /\ Goto("updateGoogleSheets")
  /\ i' = 0
  /\ UNCHANGED <<coll, coins, offset, items, existingItems, results,
                 itemsToArchive, batchCoins, files, dirFiles, sheet, issued,
                 summary>>
  /\ UNCHANGED pureVars

NextCreateAll ==
  \/ FetchSchema
  \/ fetchTopCoins
  \/ getAllWebflowItems
  \/ syncItemsCreateAll
  \/ syncItemsCreateAllReturn
  \/ updateGoogleSheets
  \/ cleanupOldChartFiles
  \/ cleanupLoop
  \/ cleanupReturn
  \/ fetchAndSaveChartData
  \/ logResults
  \/ StartRun

SpecCreateAll == Init /\ [][NextCreateAll]_vars

-----------------------------------------------------------------------------
(* normalizeTimestamps on its own *)

(* Timestamps of the input: any order, repeats allowed *)
Stamps == {1, 5}

StampedSeries ==
  UNION {{[k \in 1..n |-> Point(t[k], v[k])] :
            t \in [1..n -> Stamps], v \in [1..n -> Values]} : n \in 0..MaxTarget}

(* 24, 168 and 720 are the entries of the lookup; 7 takes the fallback *)
PointCounts == {24, 168, 720, 7}

InitNormalize ==
  /\ pc = "normalizeTimestamps"
  /\ RunIdle
  /\ data \in StampedSeries \cup {Null}
  /\ targetPoints = 0
  /\ result = <<>>
  /\ chartData = <<>>
  /\ baseTime \in {MaxNow - 1, MaxNow}
  /\ charts = <<>>
  /\ RotIdle
  /\ args \in [pointsCount : PointCounts, isOneYear : BOOLEAN]
  /\ lastRun = NoRun

NormalizeCall ==
  /\ pc = "normalizeTimestamps"
  /\ result' = normalizeTimestamps(data, args.pointsCount, baseTime, args.isOneYear)
  /\ pc' = "normalized"
  /\ UNCHANGED <<coll, coins, offset, items, existingItems, i, results,
                 itemsToArchive, batchCoins, files, dirFiles, sheet, issued,
                 failedAt, summary, exitCode>>
  /\ UNCHANGED <<data, targetPoints, chartData, baseTime, charts>>
  /\ UNCHANGED rotVars
  /\ UNCHANGED <<args, lastRun>>

NextNormalize == NormalizeCall

SpecNormalize == InitNormalize /\ [][NextNormalize]_vars

-----------------------------------------------------------------------------
(* calculatePercentageChange on its own *)

PercentValues == {NoValue, 0, 1, 3}

PercentSeries ==
  UNION {{[k \in 1..n |-> Point(k, f[k])] : f \in [1..n -> PercentValues]} :
           n \in 0..MaxLen}

InitPercent ==
  /\ pc = "calculatePercentageChange"
  /\ RunIdle
  /\ data \in PercentSeries \cup {Null}
  /\ targetPoints = 0
  /\ result = <<>>
  /\ chartData = <<>>
  /\ baseTime = 0
  /\ charts = <<>>
  /\ RotIdle
  /\ args = <<>>
  /\ lastRun = NoRun

PercentCall ==
  /\ pc = "calculatePercentageChange"
  /\ result' = calculatePercentageChange(data)
  /\ pc' = "percentChanged"
  /\ UNCHANGED <<coll, coins, offset, items, existingItems, i, results,
                 itemsToArchive, batchCoins, files, dirFiles, sheet, issued,
                 failedAt, summary, exitCode>>
  /\ UNCHANGED <<data, targetPoints, chartData, baseTime, charts>>
  /\ UNCHANGED rotVars
  /\ UNCHANGED <<args, lastRun>>

NextPercent == PercentCall

SpecPercent == InitPercent /\ [][NextPercent]_vars

-----------------------------------------------------------------------------
(* The batch selection over the runs of a day.  The workflow starts the    *)
(* script every two hours ("Runs every 2 hours, 7 batches to cover all 50  *)
(* coins"); each run selects the batch of its UTC hour from the snapshot   *)
(* fetchTopCoins returned (per_page entities at most, here named by rank). *)

per_page == 50

MaxRuns == 12      \* runs of the script followed in a row

Tracked(n) == [k \in 1..n |-> k]

InitRotation ==
  /\ pc = "selectBatch"
  /\ coins \in {Tracked(n) : n \in 0..per_page}
  /\ offset = 0
  /\ items = <<>>
  /\ existingItems = <<>>
  /\ i = 0
  /\ results = [updated |-> 0, created |-> 0, failed |-> 0]
  /\ itemsToArchive = <<>>
  /\ batchCoins = <<>>
  /\ dirFiles = {}
  /\ issued = <<>>
  /\ failedAt = ""
  /\ summary = NoSummary
  /\ exitCode = Running
  /\ World
  /\ data = <<>>
  /\ targetPoints = 0
  /\ result = <<>>
  /\ chartData = <<>>
  /\ baseTime = 0
  /\ charts = <<>>
  /\ currentHour \in 0..23
  /\ rotation = <<>>
  /\ args = <<>>
  /\ lastRun = NoRun

(* lines 205-212 in one run; the next run starts two hours later *)
SelectBatchRun ==
  /\ pc = "selectBatch"
  /\ Len(rotation) < MaxRuns
  /\ batchCoins' = selectBatch(coins, currentHour)
  /\ rotation' = Append(rotation, [hour |-> currentHour,
                                   batch |-> selectBatch(coins, currentHour)])
  /\ currentHour' = (currentHour + 2) % 24
  /\ UNCHANGED <<pc, coll, coins, offset, items, existingItems, i, results,
                 itemsToArchive, files, dirFiles, sheet, issued, failedAt,
                 summary, exitCode>>
  /\ UNCHANGED <<data, targetPoints, result, chartData, baseTime, charts, args,
                 lastRun>>

NextRotation == SelectBatchRun

SpecRotation == InitRotation /\ [][NextRotation]_vars

-----------------------------------------------------------------------------
(* The chart steps of a run on their own (cleanupOldChartFiles, batch      *)
(* selection, fetchAndSaveChartData, logResults), with a snapshot of more  *)
(* coins than one batch holds.  Coins are named by their rank.             *)

(* A snapshot one coin longer than a batch: batch 0 and batch 1 are not    *)
(* empty, and each leaves tracked coins outside                            *)
RefreshCoins == Tracked(batchSize + 1)

(* The chart directory before the run: a file that is no chart, the chart  *)
(* of a coin of batch 0, the chart of the coin of batch 1, the chart of a  *)
(* coin that is no longer ranked, and a non-.json file named after it      *)
RefreshFiles ==
  {[stem |-> 0, ext |-> "md", fresh |-> FALSE],
   [stem |-> 1, ext |-> "json", fresh |-> FALSE],
   [stem |-> batchSize + 1, ext |-> "json", fresh |-> FALSE],
   [stem |-> per_page + 1, ext |-> "json", fresh |-> FALSE],
   [stem |-> per_page + 1, ext |-> "tmp", fresh |-> FALSE]}

(* Steps 1 to 5 are over: the collection was empty and every create threw, *)
(* the spreadsheet is not configured                                       *)
InitRefresh ==
  /\ pc = "cleanupOldChartFiles"
  /\ coins = RefreshCoins
  /\ offset = 0
  /\ items = <<>>
  /\ existingItems = <<>>
  /\ i = 0
  /\ results = [updated |-> 0, created |-> 0, failed |-> Len(RefreshCoins)]
  /\ itemsToArchive = <<>>
  /\ batchCoins = <<>>
  /\ dirFiles = {}
  /\ issued = [k \in DOMAIN RefreshCoins |->
                 Req("create", RefreshCoins[k], 0, k, FALSE)]
  /\ failedAt = ""
  /\ summary = NoSummary
  /\ exitCode = Running
  /\ coll = <<>>
  /\ files = RefreshFiles
  /\ sheet = "stale"
  /\ PureIdle

NextRefresh ==
  \/ cleanupOldChartFiles
  \/ cleanupLoop
  \/ cleanupReturn
  \/ fetchAndSaveChartData
  \/ logResults

SpecRefresh == InitRefresh /\ [][NextRefresh]_vars

-----------------------------------------------------------------------------
(* Properties of the reconciler and the orchestrator *)

IsSyncOp(r) == r.op \in {"create", "update"}
IsArchiveOp(r) == r.op = "archive"
IsDropped(item) == \A k \in DOMAIN coins : coins[k] # item.cg

SyncIssued == SelectSeq(issued, IsSyncOp)
ArchiveIssued == SelectSeq(issued, IsArchiveOp)

(* The run is past the per-coin loop of syncItems *)
AfterSync ==
  \/ pc \in {"archiveOldCoins", "updateGoogleSheets", "cleanupOldChartFiles",
             "cleanupLoop", "fetchAndSaveChartData"}
  \/ pc = "exited" /\ failedAt = ""

(* The run is past the loop of archiveOldCoins *)
AfterArchive ==
  \/ pc \in {"updateGoogleSheets", "cleanupOldChartFiles", "cleanupLoop",
             "fetchAndSaveChartData"}
  \/ pc = "exited" /\ failedAt = ""

PriorIds == {existingItems[k].cg : k \in DOMAIN existingItems}

(* C1: syncItems issues exactly one request per current coin, in input     *)
(* order: an update when the coin's id is an id of the prior snapshot,     *)
(* otherwise a create; once the loop is over every coin has got its one    *)
(* request, so the ids created or updated are the ids of the snapshot.     *)
C1_OneActionPerEntity ==
  /\ Len(SyncIssued) <= Len(coins)
  /\ \A k \in DOMAIN SyncIssued :
       /\ SyncIssued[k].cg = coins[k]
       /\ SyncIssued[k].pos = k
       /\ SyncIssued[k].op = IF coins[k] \in PriorIds THEN "update" ELSE "create"
  /\ AfterSync => Len(SyncIssued) = Len(coins)

C1_Witness ==
  /\ pc = "archiveOldCoins"
  /\ Len(coins) = 2
  /\ \E a, b \in DOMAIN SyncIssued :
       SyncIssued[a].op = "update" /\ SyncIssued[b].op = "create"

(* C2: the archive requests of archiveOldCoins go to exactly the prior     *)
(* records whose coingecko-id is not an id of the current snapshot, in the *)
(* order of the prior snapshot.                                            *)
C2_ArchiveIsPriorMinusCurrent ==
  LET dropped == SelectSeq(existingItems, IsDropped)
  IN /\ Len(ArchiveIssued) <= Len(dropped)
     /\ \A k \in DOMAIN ArchiveIssued :
          /\ ArchiveIssued[k].rid = dropped[k].id
          /\ ArchiveIssued[k].cg = dropped[k].cg
          /\ ArchiveIssued[k].cg \notin Range(coins)
     /\ AfterArchive => Len(ArchiveIssued) = Len(dropped)

C2_Witness ==
  /\ pc = "updateGoogleSheets"
  /\ Len(coins) = 1
  /\ Len(existingItems) = 2
  /\ Len(ArchiveIssued) = 1
  /\ Len(SyncIssued) = 1

(* C3: the collection never holds two records with the same coingecko-id;  *)
(* a coin whose id has a prior record is never created again, it is        *)
(* updated through the record id of that record.                           *)
C3_NeverRecreated ==
  /\ \A a, b \in DOMAIN coll : a # b => coll[a].cg # coll[b].cg
  /\ \A k \in DOMAIN SyncIssued :
       IF SyncIssued[k].cg \in PriorIds
       THEN /\ SyncIssued[k].op = "update"
            /\ \E j \in DOMAIN coll :
                 coll[j].id = SyncIssued[k].rid /\ coll[j].cg = SyncIssued[k].cg
       ELSE SyncIssued[k].op = "create"

(* current = [btc], prior = [btc: record 1, old: record 2] *)
C3_Witness ==
  /\ pc = "updateGoogleSheets"
  /\ coins = <<"btc">>
  /\ Len(existingItems) = 2
  /\ existingItems[1].cg = "btc" /\ existingItems[2].cg = "old"
  /\ Len(SyncIssued) = 1 /\ Len(ArchiveIssued) = 1
  /\ SyncIssued[1].op = "update" /\ SyncIssued[1].rid = existingItems[1].id
  /\ ArchiveIssued[1].rid = existingItems[2].id

(* C4: a failed create or update does not end the loop: once syncItems     *)
(* has returned, every position of the snapshot has got its request, in    *)
(* particular every position after a failed one.                           *)
C4_FailureDoesNotAbort ==
  AfterSync =>
    \A k \in DOMAIN SyncIssued :
      (~SyncIssued[k].ok) =>
        \A p \in (SyncIssued[k].pos + 1)..Len(coins) :
          \E j \in DOMAIN SyncIssued : SyncIssued[j].pos = p

C4_Witness ==
  /\ pc = "archiveOldCoins"
  /\ Len(SyncIssued) = 2
  /\ ~SyncIssued[1].ok
  /\ SyncIssued[2].pos = 2 /\ SyncIssued[2].ok

(* C5: a run whose fetchTopCoins failed has exited with a non-zero status, *)
(* has issued no request (create, update, archive, spreadsheet, chart file *)
(* delete or write) and has printed no summary.                            *)
C5_SnapshotFailureIsFatal ==
  failedAt = "fetchTopCoins" =>
    /\ pc = "exited"
    /\ exitCode # 0
    /\ exitCode # Running
    /\ issued = <<>>
    /\ summary = NoSummary

C5_Witness ==
  /\ failedAt = "fetchTopCoins"
  /\ Len(coll) = 2
  /\ \E f \in files : f.ext = "json"

(* C6: a fatal error is only ever thrown while fetching the schema, the    *)
(* current or the prior snapshot; a run that has fetched both snapshots    *)
(* goes on to print the summary and to exit with status 0.                 *)
C6_HaltsOnlyOnSetupFailure ==
  /\ [](failedAt \in {"", "fetchSchema", "fetchTopCoins", "getAllWebflowItems"})
  /\ (pc = "syncItems") ~> (pc = "exited" /\ exitCode = 0 /\ summary = results)

(* a run that ends with status 0 although a create or update, an archive,  *)
(* the spreadsheet, a chart fetch and an unlink all failed in it           *)
C6_Witness ==
  /\ pc = "exited" /\ exitCode = 0
  /\ \E k \in DOMAIN issued : IsSyncOp(issued[k]) /\ ~issued[k].ok
  /\ \E k \in DOMAIN issued : IsArchiveOp(issued[k]) /\ ~issued[k].ok
  /\ \E k \in DOMAIN issued : issued[k].op = "sheetsClear" /\ ~issued[k].ok
  /\ \E k \in DOMAIN issued : issued[k].op = "unlink" /\ ~issued[k].ok

FailedWrites(ops) ==
  Cardinality({k \in DOMAIN issued : issued[k].op \in ops /\ ~issued[k].ok})

(* C7 as stated: the failed count of the summary is the number of failed   *)
(* create, update and archive requests of the run.                         *)
C7_FailedCountsEveryWrite ==
  (pc = "exited" /\ failedAt = "") =>
    summary.failed = FailedWrites({"create", "update", "archive"})

(* C7 amended: the failed tally counts the failed create and update        *)
(* requests; a failed archive request is logged and leaves it unchanged.   *)
C7_FailedCountsSyncWrites ==
  /\ results.failed = FailedWrites({"create", "update"})
  /\ (pc = "exited" /\ failedAt = "") =>
       summary.failed = FailedWrites({"create", "update"})

C7_Witness ==
  /\ pc = "exited" /\ failedAt = ""
  /\ summary.failed = 1
  /\ FailedWrites({"create", "update"}) = 1
  /\ FailedWrites({"archive"}) = 1

-----------------------------------------------------------------------------
(* Properties of the chart files, the pacing and the spreadsheet step *)

SetupSteps == {"fetchSchema", "fetchTopCoins", "getAllWebflowItems"}

(* The run is past cleanupOldChartFiles *)
AfterCleanup ==
  \/ pc = "fetchAndSaveChartData"
  \/ pc = "exited" /\ failedAt = ""

IsStaleChartFile(f) == f.ext = "json" /\ f.stem \notin Range(coins)

(* readdir and every unlink of this run's cleanup succeeded *)
CleanupSucceeded ==
  \A k \in DOMAIN issued : issued[k].op \in {"readdir", "unlink"} => issued[k].ok

IsChartFetch(r) == r.op = "chartFetch"
ChartIssued == SelectSeq(issued, IsChartFetch)

(* the step appends a failed chart fetch to the log *)
ChartFetchFails ==
  /\ pc = "fetchAndSaveChartData"
  /\ Len(issued') = Len(issued) + 1
  /\ issued'[Len(issued')].op = "chartFetch"
  /\ ~issued'[Len(issued')].ok

(* C16: a failed chart fetch (non-success status or thrown error) writes   *)
(* no file for its coin in this run and leaves the files on disk as they   *)
(* are, and the chart fetch of every later coin of the batch is still      *)
(* issued.                                                                 *)
C16_ChartFailureSkips ==
  /\ [](\A k \in DOMAIN ChartIssued :
          ~ChartIssued[k].ok =>
            /\ \A j \in DOMAIN issued :
                 ~(issued[j].op = "writeFile" /\ issued[j].pos = ChartIssued[k].pos)
            /\ \A f \in files :
                 ~(f.ext = "json" /\ f.stem = ChartIssued[k].cg /\ f.fresh)
            /\ \A q \in (ChartIssued[k].pos + 1)..Len(batchCoins) :
                 \/ pc = "fetchAndSaveChartData" /\ i < q
                 \/ \E j \in DOMAIN ChartIssued :
                      ChartIssued[j].pos = q /\ ChartIssued[j].cg = batchCoins[q])
  /\ [][ChartFetchFails => files' = files]_vars

(* the fetch for the first coin of the batch fails, its file of an earlier *)
(* run stays, and the second coin is fetched and written                   *)
C16_Witness ==
  /\ pc = "exited" /\ failedAt = ""
  /\ Len(batchCoins) = 2
  /\ Len(ChartIssued) = 2
  /\ ~ChartIssued[1].ok /\ ChartIssued[2].ok
  /\ [stem |-> batchCoins[1], ext |-> "json", fresh |-> FALSE] \in files
  /\ [stem |-> batchCoins[2], ext |-> "json", fresh |-> TRUE] \in files

IsItemRequest(r) == r.op \in {"create", "update", "archive", "chartFetch"}

(* create and update belong to one loop, archive and chartFetch to their own *)
LoopOf(r) == IF r.op \in {"create", "update"} THEN "syncItems" ELSE r.op

CourtesyDelay(r) == IF r.op = "chartFetch" THEN 10000 ELSE 100

(* C17 as stated: between the request for an item and the request for the  *)
(* next item of the same loop lies the loop's delay (100 ms for collection *)
(* writes, 10 s for chart fetches), whatever the outcome of the first.     *)
C17_EveryItemPaced ==
  \A a, b \in DOMAIN issued :
    (/\ a < b
     /\ IsItemRequest(issued[a]) /\ IsItemRequest(issued[b])
     /\ LoopOf(issued[a]) = LoopOf(issued[b])
     /\ issued[b].pos = issued[a].pos + 1) =>
      \E c \in (a + 1)..(b - 1) :
        /\ issued[c].op = "delay"
        /\ issued[c].pos = issued[a].pos
        /\ issued[c].rid = CourtesyDelay(issued[a])

IsSheetsOp(r) == r.op \in {"sheetsClear", "sheetsUpdate"}

(* C18: the spreadsheet step, whether it is skipped for want of            *)
(* configuration, fails or succeeds, changes nothing but the spreadsheet   *)
(* and hands over to the chart cleanup; a run that reached it goes on to   *)
(* the cleanup, the chart refresh and the summary and exits with status 0, *)
(* the summary being the tally as it stood before the step.                *)
C18_SheetsBestEffort ==
  /\ [][pc = "updateGoogleSheets" =>
          /\ pc' = "cleanupOldChartFiles"
          /\ UNCHANGED <<results, exitCode, failedAt, summary, coll, coins,
                         existingItems, files>>]_vars
  /\ [](failedAt # "updateGoogleSheets")
  /\ []((pc = "exited" /\ failedAt = "") =>
          /\ \E k \in DOMAIN issued : issued[k].op = "readdir"
          /\ Len(ChartIssued) = Len(batchCoins))
  /\ (pc = "updateGoogleSheets") ~> (pc = "exited" /\ exitCode = 0 /\ summary = results)

(* a run whose spreadsheet call failed and that still cleaned up, fetched  *)
(* a chart and reported its one created record with status 0               *)
C18_Witness ==
  /\ pc = "exited" /\ exitCode = 0
  /\ \E k \in DOMAIN issued : IsSheetsOp(issued[k]) /\ ~issued[k].ok
  /\ \E k \in DOMAIN issued : issued[k].op = "readdir" /\ issued[k].ok
  /\ Len(ChartIssued) = 1
  /\ summary = [updated |-> 0, created |-> 1, failed |-> 0]

(* C19: getAllWebflowItems asks for the pages at offsets 0, 100, 200, ...  *)
(* and holds the concatenation of the pages read so far; it stops at the   *)
(* first page of fewer than 100 items and returns every record of the      *)
(* collection once, in order; the listing ends for every collection size.  *)
C19_PagesUntilShortPage ==
  /\ [](pc = "getAllWebflowItems" =>
          /\ offset % 100 = 0
          /\ offset <= Len(coll)
          /\ items = SubSeq(coll, 1, offset))
  /\ [][(pc = "getAllWebflowItems" /\ pc' = "getAllWebflowItems") =>
          /\ Len(coll) - offset >= 100
          /\ offset' = offset + 100]_vars
  /\ [](pc = "syncItems" =>
          /\ existingItems = coll
          /\ offset = 100 * (Len(coll) \div 100)
          /\ Len(coll) - offset < 100)
  /\ (pc = "getAllWebflowItems") ~> (pc \in {"syncItems", "exited"})

(* 200 records: two full pages, then the empty page at offset 200 ends it *)
C19_Witness ==
  /\ pc = "syncItems"
  /\ Len(coll) = 200
  /\ offset = 200
  /\ Len(existingItems) = 200
  /\ existingItems[200].id = 200

(* index of the last record of the prior snapshot with coingecko-id cg *)
LastIndexOf(cg) ==
  CHOOSE j \in DOMAIN existingItems :
    /\ existingItems[j].cg = cg
    /\ \A k \in DOMAIN existingItems : existingItems[k].cg = cg => k <= j

(* C20: when several prior records carry the same coingecko-id, the update *)
(* of the coin with that id goes to the last of them in the order of the   *)
(* prior snapshot (a coin with any prior record is updated, not created),  *)
(* and no error ends the run.                                              *)
C20_LastRecordWins ==
  /\ \A k \in DOMAIN SyncIssued :
       IF SyncIssued[k].cg \in PriorIds
       THEN /\ SyncIssued[k].op = "update"
            /\ SyncIssued[k].rid = existingItems[LastIndexOf(SyncIssued[k].cg)].id
       ELSE SyncIssued[k].op = "create"
  /\ failedAt \in SetupSteps \cup {""}
  /\ AfterSync => Len(SyncIssued) = Len(coins)

(* prior = [btc: 1, btc: 2, old: 3]: the update of btc goes to record 2 *)
C20_Witness ==
  /\ pc = "exited" /\ exitCode = 0
  /\ Len(existingItems) = 3
  /\ existingItems[1].cg = "btc" /\ existingItems[2].cg = "btc"
  /\ \E k \in DOMAIN SyncIssued :
       /\ SyncIssued[k].cg = "btc"
       /\ SyncIssued[k].op = "update"
       /\ SyncIssued[k].rid = 2
       /\ SyncIssued[k].ok

(* C24 as stated, for the create-all revision: when a create is issued,    *)
(* every record of the prior snapshot has been deleted by an earlier       *)
(* request of the run; after a run whose creates all succeeded the         *)
(* collection holds exactly one record per coin of the snapshot; and the   *)
(* collection never holds two records with the same coingecko-id.          *)
C24_DeletedBeforeCreate ==
  /\ \A k \in DOMAIN issued :
       issued[k].op = "create" =>
         \A j \in DOMAIN existingItems :
           \E d \in 1..(k - 1) :
             issued[d].op = "delete" /\ issued[d].rid = existingItems[j].id
  /\ (pc = "exited" /\ failedAt = "" /\ FailedWrites({"create"}) = 0) =>
       /\ Len(coll) = Len(coins)
       /\ \A k \in DOMAIN coll : coll[k].cg = coins[k]
  /\ \A a, b \in DOMAIN coll : a # b => coll[a].cg # coll[b].cg

-----------------------------------------------------------------------------
(* Properties of the chart helpers *)

(* C8 as stated: when the series is longer than the target, the last       *)
(* element of the result of downsampleData is the last element of the      *)
(* series.                                                                 *)
C8_LastPointIncluded ==
  (pc = "downsampled" /\ data # Null /\ Len(data) > targetPoints) =>
    /\ Len(result) > 0
    /\ result[Len(result)] = data[Len(data)]

(* C9: downsampleData of an absent or empty series is empty, and of a      *)
(* series of at most targetPoints points it is the series itself.          *)
C9_NoUpsampling ==
  pc = "downsampled" =>
    IF data = Null
    THEN result = <<>>
    ELSE /\ Len(data) = 0 => result = <<>>
         /\ (0 < Len(data) /\ Len(data) <= targetPoints) => result = data

C9_Witness ==
  /\ pc = "downsampled"
  /\ data # Null
  /\ Len(data) = 2
  /\ targetPoints = 4
  /\ result = data

SeriesOfBucket(b) == {b.prices, b.market_caps, b.volumes}

(* Length the claim gives to a bucket whose source window has w points *)
BucketLengthIs(b, w) ==
  \A x \in SeriesOfBucket(b) : Len(x) = IF w >= b.points THEN b.points ELSE w

(* C10: every series of every chart bucket has the bucket's points value   *)
(* as its length when the source window (the last 168 / 720 points, or the *)
(* whole series, for the downsampled charts; the last points points for    *)
(* the recent-data charts) has that many points, else the window's length. *)
C10_BucketLength ==
  LET n == Len(chartData.prices)
  IN /\ pc = "downsampledCharts" =>
          /\ BucketLengthIs(charts.d7, Min(n, 168))
          /\ BucketLengthIs(charts.d30, Min(n, 720))
          /\ BucketLengthIs(charts.y1, n)
     /\ pc = "recentCharts" =>
          \A h \in DOMAIN charts : BucketLengthIs(charts[h], Min(n, charts[h].points))

C10_Witness ==
  /\ pc = "downsampledCharts"
  /\ Len(chartData.prices) = 725
  /\ Len(charts.d7.prices) = 28
  /\ Len(charts.d30.volumes) = 10
  /\ Len(charts.y1.market_caps) = 12

(* t1 < t2 for two timestamps (exact rationals with positive denominators) *)
Before(t1, t2) == t1.n * t2.d < t2.n * t1.d

(* the timestamp t is the whole number of hours h *)
IsHour(t, h) == t.n = h * t.d

(* the timestamp t is the rational number of hours num / den (den > 0) *)
IsRatio(t, num, den) == t.d > 0 /\ t.n * den = num * t.d

(* C23: normalizeTimestamps of an absent or empty series is empty; of a    *)
(* series of L points it is L points, point i (0 <= i < L) carrying the    *)
(* value of input point i and the timestamp start + i * interval, with     *)
(* start = now - H, interval = H / L, H = 365 days when isOneYear and      *)
(* pointsCount hours otherwise; the timestamps of the input do not enter.  *)
C23_NormalizeFormula ==
  pc = "normalized" =>
    IF data = Null \/ Len(data) = 0
    THEN result = <<>>
    ELSE LET L == Len(data)
             H == IF args.isOneYear THEN 365 * 24 ELSE args.pointsCount
             start == baseTime - H
         IN /\ Len(result) = L
            /\ \A k \in 1..L :
                 /\ result[k].value = data[k].value
                 /\ IsRatio(result[k].ts, start * L + (k - 1) * H, L)

(* three points with pointsCount 24: now - 24 h, now - 16 h, now - 8 h,    *)
(* whatever the timestamps of the input (here 5, 1, 5)                     *)
C23_Witness ==
  /\ pc = "normalized"
  /\ data # Null
  /\ Len(data) = 3
  /\ data[1].ts.n = 5 /\ data[2].ts.n = 1 /\ data[3].ts.n = 5
  /\ args = [pointsCount |-> 24, isOneYear |-> FALSE]
  /\ IsHour(result[1].ts, baseTime - 24)
  /\ IsHour(result[2].ts, baseTime - 16)
  /\ IsHour(result[3].ts, baseTime - 8)

(* C21: for a series longer than the target n, with step = floor(len / n), *)
(* downsampleData returns the n elements at indices 0, step, 2 * step,     *)
(* ..., (n - 1) * step of the series, in that order: an ascending          *)
(* subsequence of the series that starts with its first element.           *)
C21_StrideSelection ==
  (pc = "downsampled" /\ data # Null /\ Len(data) > targetPoints) =>
    LET step == Len(data) \div targetPoints
    IN /\ step >= 1
       /\ (targetPoints - 1) * step < Len(data)
       /\ result = [k \in 1..targetPoints |-> data[(k - 1) * step + 1]]
       /\ result[1] = data[1]
       /\ \A k \in 1..(Len(result) - 1) : Before(result[k].ts, result[k + 1].ts)

(* 5 points to 2: step 2, indices 0 and 2 (index 4 is visited, not taken) *)
C21_Witness ==
  /\ pc = "downsampled"
  /\ data # Null
  /\ Len(data) = 5 /\ targetPoints = 2
  /\ result = <<data[1], data[3]>>

(* some series longer than its target comes back one element longer than  *)
(* the target                                                              *)
OvershootExists ==
  \E d \in SmallSeries, n \in 1..MaxTarget :
    Len(d) > n /\ Len(downsampleData(d, n)) = n + 1

C14_ZeroBaselineAllZero ==
  pc = "percentChanged" =>
    IF data = Null
    THEN result = <<>>
    ELSE /\ Len(data) = 0 => result = <<>>
         /\ (Len(data) > 0 /\ data[1].value \in {0, NoValue}) =>
              /\ Len(result) = Len(data)
              /\ \A k \in DOMAIN data :
                   result[k].ts = data[k].ts /\ result[k].value = 0

(* percentChange([(1, 0), (2, 3)]) = [(1, 0), (2, 0)] *)
C14_Witness ==
  /\ pc = "percentChanged"
  /\ data = <<Point(1, 0), Point(2, 3)>>
  /\ result = <<Point(1, 0), Point(2, 0)>>

-----------------------------------------------------------------------------
(* Properties of the batch selection *)

(* Number of times entity e is selected by the first n runs *)
TimesSelected(e, n) ==
  Cardinality({kj \in (1..n) \X (1..batchSize) :
                 /\ kj[2] \in DOMAIN rotation[kj[1]].batch
                 /\ rotation[kj[1]].batch[kj[2]] = e})

BatchNumberOf(h) == (h \div 2) % 7

(* C11 as stated: with 50 tracked entities, the runs at UTC hours 0, 2,    *)
(* ..., 12 select each of the 7 batches exactly once and every one of the  *)
(* 50 entities is selected exactly once by them.                           *)
C11_RotationCoversAll ==
  (Len(coins) = 50 /\ Len(rotation) >= 7 /\ rotation[1].hour = 0) =>
    /\ \A a \in 1..7 : rotation[a].hour = 2 * (a - 1)
    /\ \A b \in 0..6 :
         Cardinality({a \in 1..7 : BatchNumberOf(rotation[a].hour) = b}) = 1
    /\ \A e \in Range(coins) : TimesSelected(e, 7) = 1

(* C12: the batch a run selects is decided by its UTC hour h alone: its    *)
(* number floor(h / 2) mod 7 lies in 0..6 and the batch is the slice of    *)
(* the snapshot from index 7 * number up to, not including, the smaller of *)
(* 7 * (number + 1) and the snapshot's length, in snapshot order; it is    *)
(* empty when the snapshot is not longer than 7 * number.                  *)
C12_BatchIsSliceOfHour ==
  \A k \in DOMAIN rotation :
    LET h == rotation[k].hour
        b == BatchNumberOf(h)
        lo == b * 7
        hi == Min((b + 1) * 7, Len(coins))
        batch == rotation[k].batch
    IN /\ h \in 0..23
       /\ b \in 0..6
       /\ Len(batch) = IF hi > lo THEN hi - lo ELSE 0
       /\ \A j \in DOMAIN batch : batch[j] = coins[lo + j]
       /\ k = Len(rotation) => batchCoins = batch

(* a snapshot of 45 entities: hour 13 selects the short last batch (ranks  *)
(* 43..45) and hour 15 selects batch 0 again                               *)
C12_Witness ==
  /\ Len(coins) = 45
  /\ Len(rotation) = 2
  /\ rotation[1].hour = 13 /\ rotation[1].batch = <<43, 44, 45>>
  /\ rotation[2].hour = 15 /\ rotation[2].batch = <<1, 2, 3, 4, 5, 6, 7>>

-----------------------------------------------------------------------------
(* Properties of a whole run: phases, report, archival flag *)

(* The steps of syncCoinsToWebflow in the order of the source *)
PhaseOrder ==
  <<"fetchSchema", "fetchTopCoins", "getAllWebflowItems", "syncItems",
    "archiveOldCoins", "updateGoogleSheets", "cleanupOldChartFiles",
    "cleanupLoop", "fetchAndSaveChartData", "exited">>

PhaseRank(p) == CHOOSE k \in DOMAIN PhaseOrder : PhaseOrder[k] = p

(* The step the run is in, or was in when it ended *)
PhaseNow == IF pc = "exited" /\ failedAt # "" THEN failedAt ELSE pc

IsChartOp(r) == r.op \in {"chartFetch", "writeFile"}

(* C25: phase ordering of a run.  The run moves through its steps in the   *)
(* order of the source, one step at a time or out by a fatal error: the    *)
(* coins are fetched (step fetchTopCoins) before the collection is listed  *)
(* (step getAllWebflowItems), and each is only written in its own step; no *)
(* create, update or archive is in the log before both fetches are done;   *)
(* every create/update precedes every archive; the batch is selected and   *)
(* chart requests are issued only after the sync and archive loops are     *)
(* over; the summary is emitted at the very end, after the last chart      *)
(* write, and nothing is issued after it.                                  *)
C25_PhaseOrdering ==
  /\ [](/\ PhaseRank(PhaseNow) <= PhaseRank("getAllWebflowItems") =>
            \A k \in DOMAIN issued : ~IsSyncOp(issued[k]) /\ ~IsArchiveOp(issued[k])
        /\ \A j, k \in DOMAIN issued :
             /\ IsSyncOp(issued[j]) /\ IsArchiveOp(issued[k]) => j < k
             /\ (IsSyncOp(issued[j]) \/ IsArchiveOp(issued[j])) /\ IsChartOp(issued[k])
                  => j < k
        /\ PhaseRank(PhaseNow) < PhaseRank("fetchAndSaveChartData") =>
             /\ batchCoins = <<>>
             /\ \A k \in DOMAIN issued : ~IsChartOp(issued[k])
        /\ PhaseRank(PhaseNow) < PhaseRank("archiveOldCoins") => ArchiveIssued = <<>>
        /\ summary # NoSummary =>
             /\ pc = "exited" /\ failedAt = ""
             /\ Len(ChartIssued) = Len(batchCoins))
  /\ [][/\ pc' # pc =>
             \/ pc' = "exited"
             \/ pc = "exited" /\ pc' = "fetchSchema"
             \/ PhaseRank(pc') = PhaseRank(pc) + 1
        /\ pc # "exited" =>
             /\ coins' # coins => pc = "fetchTopCoins"
             /\ existingItems' # existingItems => pc = "getAllWebflowItems"
             /\ batchCoins' # batchCoins => pc = "cleanupLoop"
             /\ summary' # summary =>
                  /\ pc = "fetchAndSaveChartData" /\ pc' = "exited"
                  /\ issued' = issued
        /\ Len(SyncIssued') > Len(SyncIssued) => pc = "syncItems"
        /\ Len(ArchiveIssued') > Len(ArchiveIssued) => pc = "archiveOldCoins"]_vars

(* A run that created or updated, archived, wrote a chart file and then    *)
(* emitted its summary                                                     *)
C25_Witness ==
  /\ pc = "exited" /\ exitCode = 0 /\ summary # NoSummary
  /\ SyncIssued # <<>>
  /\ ArchiveIssued # <<>>
  /\ \E k \in DOMAIN issued : issued[k].op = "writeFile" /\ issued[k].ok

ResultsTotal(r) == r.updated + r.created + r.failed

(* C26: report conservation.  During syncItems the three counters add up   *)
(* to the number of coins handled so far, and once syncItems has returned  *)
(* to the number of coins of the snapshot; each turn of the loop raises    *)
(* exactly one counter by exactly one, whether the request succeeded, got  *)
(* a non-success status or threw; and no counter decreases during the run. *)
C26_ReportConservation ==
  /\ [](/\ ResultsTotal(results) = Len(SyncIssued)
        /\ pc = "syncItems" => ResultsTotal(results) = i
        /\ AfterSync => ResultsTotal(results) = Len(coins))
  /\ [][/\ pc = "syncItems" /\ pc' = "archiveOldCoins" =>
             ResultsTotal(results') = Len(coins)
        /\ pc = "syncItems" /\ i' = i + 1 =>
             \E f \in {"updated", "created", "failed"} :
               /\ results'[f] = results[f] + 1
               /\ \A g \in {"updated", "created", "failed"} \ {f} :
                    results'[g] = results[g]
        /\ pc # "exited" =>
             \A f \in {"updated", "created", "failed"} : results'[f] >= results[f]]_vars

(* syncItems has returned from a snapshot of two coins, one of them failed  *)
(* on a thrown error (no delay follows its request), the other was created *)
(* or updated                                                              *)
C26_Witness ==
  /\ pc = "archiveOldCoins"
  /\ Len(coins) = 2
  /\ results.failed = 1
  /\ results.updated + results.created = 1
  /\ \E k \in DOMAIN issued :
       /\ IsSyncOp(issued[k]) /\ ~issued[k].ok
       /\ \A d \in DOMAIN issued :
            ~(issued[d].op = "delay" /\ issued[d].pos = issued[k].pos)

(* The last entry of the log is a successful request op for record rid *)
LastIssuedIs(log, op, rid) ==
  \E k \in DOMAIN log :
    /\ log[k].op = op /\ log[k].rid = rid /\ log[k].ok
    /\ \A d \in (k + 1)..Len(log) : log[d].op = "delay"

(* C27: an update leaves the archival flag unchanged.  No step removes a   *)
(* record or changes its id; no step of syncItems changes the isArchived   *)
(* flag of a record that was there before the step; a flag changes only    *)
(* to TRUE, and only by a successful archive request for that record; a   *)
(* record added by a create starts with the flag FALSE.  So a record that  *)
(* was archived in the prior snapshot is still archived at every later     *)
(* point of the run, also when its coin is back in the snapshot and the    *)
(* record has been updated in place.                                       *)
C27_UpdateKeepsArchivedFlag ==
  /\ [](\A j \in DOMAIN existingItems :
          existingItems[j].isArchived =>
            \E k \in DOMAIN coll :
              coll[k].id = existingItems[j].id /\ coll[k].isArchived)
  /\ [][/\ \A k \in DOMAIN coll :
             /\ k \in DOMAIN coll'
             /\ coll'[k].id = coll[k].id
             /\ pc = "syncItems" => coll'[k].isArchived = coll[k].isArchived
             /\ coll'[k].isArchived # coll[k].isArchived =>
                  /\ coll'[k].isArchived
                  /\ pc = "archiveOldCoins"
                  /\ LastIssuedIs(issued', "archive", coll[k].id)
        /\ \A k \in DOMAIN coll' \ DOMAIN coll :
             /\ ~coll'[k].isArchived
             /\ pc = "syncItems"
             /\ \E r \in DOMAIN issued' \ DOMAIN issued :
                  issued'[r].op = "create" /\ issued'[r].ok
                    /\ issued'[r].cg = coll'[k].cg]_vars

(* A record that was archived before the run, whose coin is in the         *)
(* snapshot again, has been updated by this run and is still archived      *)
C27_Witness ==
  /\ pc = "exited" /\ exitCode = 0
  /\ \E j \in DOMAIN existingItems, k \in DOMAIN coll :
       /\ existingItems[j].isArchived
       /\ coll[k].id = existingItems[j].id
       /\ coll[k].cg \in Range(coins)
       /\ coll[k].fresh
       /\ coll[k].isArchived
       /\ \E r \in DOMAIN issued :
            issued[r].op = "update" /\ issued[r].ok /\ issued[r].rid = coll[k].id

(* The second run has fetched the same snapshot as a first run that ended  *)
(* with exit status 0 and every create, update and archive succeeding      *)
SameSnapshotRerun ==
  /\ lastRun.ran /\ lastRun.clean
  /\ PhaseRank(PhaseNow) > PhaseRank("fetchTopCoins")
  /\ coins = lastRun.coins

SameRecords(c, d) ==
  /\ Len(c) = Len(d)
  /\ \A k \in DOMAIN c :
       c[k].id = d[k].id /\ c[k].cg = d[k].cg /\ c[k].isArchived = d[k].isArchived

(* C28: re-run idempotence.  When a run has completed with every create,   *)
(* update and archive succeeding and the next run fetches the same         *)
(* snapshot, the next run issues no create; once its syncItems is over it  *)
(* has issued one update per coin of the snapshot, in order; once its      *)
(* archiveOldCoins is over it has issued one archive for each record the   *)
(* first run listed for archiving and for no other; and at every point of *)
(* it the collection holds the same records, with the same ids and the     *)
(* same archival flags, as the first run left.                             *)
C28_RerunIdempotent ==
  SameSnapshotRerun =>
    /\ \A k \in DOMAIN issued : issued[k].op # "create"
    /\ AfterSync =>
         /\ Len(SyncIssued) = Len(coins)
         /\ \A k \in DOMAIN SyncIssued :
              SyncIssued[k].op = "update" /\ SyncIssued[k].cg = coins[k]
    /\ AfterArchive =>
         /\ {ArchiveIssued[k].rid : k \in DOMAIN ArchiveIssued} = lastRun.archived
         /\ Len(ArchiveIssued) = Cardinality(lastRun.archived)
    /\ SameRecords(coll, lastRun.coll)

(* A second run with the same snapshot has ended: it updated the record of *)
(* every coin and archived again a record the first run had archived       *)
C28_Witness ==
  /\ SameSnapshotRerun
  /\ pc = "exited" /\ exitCode = 0
  /\ coins # <<>>
  /\ \A k \in DOMAIN SyncIssued : SyncIssued[k].ok
  /\ \E k \in DOMAIN ArchiveIssued :
       ArchiveIssued[k].ok /\ ArchiveIssued[k].rid \in lastRun.archived

-----------------------------------------------------------------------------
(* Properties of the chart directory over a run *)

IsTracked(f) == f.stem \in Range(coins)
InBatch(f) == f.stem \in Range(batchCoins)

(* C29: chart cleanup frame.  A file leaves the chart directory only in    *)
(* the cleanup loop, and then it ends in .json and is named after no coin  *)
(* of the snapshot, or in the chart loop, and then it is the .json file of *)
(* the batch coin at hand, which is written anew in the same step; a file  *)
(* is written only in the chart loop and is the file of the batch coin at  *)
(* hand.  So at every point of the run every non-.json file and the chart  *)
(* file of every tracked coin outside the selected batch is in the         *)
(* directory exactly as it was before the run.                             *)
C29_ChartCleanupFrame ==
  /\ [](/\ \A f \in files : f.fresh => f.ext = "json" /\ InBatch(f)
        /\ \A f \in RefreshFiles :
             f.ext # "json" \/ (IsTracked(f) /\ ~InBatch(f)) => f \in files)
  /\ [][/\ \A f \in files \ files' :
             /\ f.ext = "json"
             /\ \/ pc = "cleanupLoop" /\ ~IsTracked(f)
                \/ /\ pc = "fetchAndSaveChartData"
                   /\ f.stem = batchCoins[i + 1]
                   /\ ChartFile(f.stem) \in files'
        /\ \A f \in files' \ files :
             /\ pc = "fetchAndSaveChartData"
             /\ f = ChartFile(batchCoins[i + 1])]_vars

(* A run has ended that removed the stale chart file and wrote the chart   *)
(* of a batch coin, while the chart file of a tracked coin outside the     *)
(* batch and the non-.json files are still there, untouched                *)
C29_Witness ==
  /\ pc = "exited" /\ exitCode = 0
  /\ \E f \in RefreshFiles \ files : f.ext = "json" /\ ~IsTracked(f)
  /\ \E f \in files : f.fresh /\ InBatch(f)
  /\ \E f \in RefreshFiles \cap files :
       f.ext = "json" /\ IsTracked(f) /\ ~InBatch(f)
  /\ \E f \in RefreshFiles \cap files : f.ext # "json" /\ ~IsTracked(f)

-----------------------------------------------------------------------------
(* Properties of the rotation over a day *)

(* The index of a selected batch, read off its first coin (coins are named *)
(* by their rank)                                                          *)
BatchIndexOf(batch) == (batch[1] - 1) \div batchSize

(* The other hour of the same 2-hour slot *)
SlotMate(h) == IF h % 2 = 0 THEN h + 1 ELSE h - 1

(* C30: rotation over a whole day, for a snapshot long enough that none of *)
(* the 7 batches is empty.  Each run selects a batch with index in 0..6,   *)
(* and a run at the other hour of the same 2-hour slot would select the    *)
(* same batch; of two runs in consecutive slots of one day the later       *)
(* selects the next index modulo 7; and over twelve runs two hours apart,  *)
(* which visit the twelve slots of a day, every index 0..6 is selected at  *)
(* least once and at most twice.                                           *)
C30_RotationOverDay ==
  Len(coins) > 6 * batchSize =>
    /\ \A k \in DOMAIN rotation :
         /\ rotation[k].batch # <<>>
         /\ BatchIndexOf(rotation[k].batch) \in 0..6
         /\ rotation[k].batch = selectBatch(coins, SlotMate(rotation[k].hour))
    /\ \A k \in 1..(Len(rotation) - 1) :
         rotation[k + 1].hour = rotation[k].hour + 2 =>
           BatchIndexOf(rotation[k + 1].batch)
             = (BatchIndexOf(rotation[k].batch) + 1) % 7
    /\ Len(rotation) >= 12 =>
         /\ {rotation[k].hour \div 2 : k \in 1..12} = 0..11
         /\ \A b \in 0..6 :
              Cardinality({k \in 1..12 : BatchIndexOf(rotation[k].batch) = b})
                \in 1..2

(* Twelve runs of a day from hour 1 on a snapshot of 50 coins: batch 0 was *)
(* selected twice, batch 6 once                                            *)
C30_Witness ==
  /\ Len(coins) = per_page
  /\ Len(rotation) >= 12
  /\ rotation[1].hour = 1
  /\ Cardinality({k \in 1..12 : BatchIndexOf(rotation[k].batch) = 0}) = 2
  /\ Cardinality({k \in 1..12 : BatchIndexOf(rotation[k].batch) = 6}) = 1

====
